---- MODULE Spec2Model ----
(***************************************************************************)
(* plockalyser: analyses of a package dependency graph                     *)
(* (src/src/plockalyser/analyses.py, markdown.py).                         *)
(*                                                                         *)
(* The graph is a networkx DiGraph.  Here it is a record                   *)
(*   [n |-> number of nodes, edges |-> set of <<source, target>>]          *)
(* whose nodes are 1..n in insertion order (the order every networkx       *)
(* iteration and every result dict follows).  Scores are exact rationals   *)
(* <<numerator, denominator>> with a positive denominator.                 *)
(***************************************************************************)
EXTENDS Integers, Sequences, FiniteSets, TLC

VARIABLES graph, call, result, data

vars == <<graph, call, result, data>>

\* ---- bounds of the model ----
MaxNodes == 4
MaxEdges == 3
MaxLen == 4
MaxScore == 2
MaxItems == 22
MaxBranch == 3

\* ---- program constants ----
TOP_X_TO_SHOW == 20
BOTTOM_X_TO_SHOW == 10

\* Optional[int]: None or an int
None == [kind |-> "None"]
Some(v) == [kind |-> "int", value |-> v]

\* ---- rationals ----
Rat(a, b) == <<a, b>>
Zero == Rat(0, 1)
RatLess(x, y) == x[1] * y[2] < y[1] * x[2]
RatEq(x, y) == x[1] * y[2] = y[1] * x[2]
RECURSIVE GCD(_, _)
GCD(a, b) == IF b = 0 THEN a ELSE GCD(b, a % b)
Norm(x) == LET d == GCD(x[1], x[2]) IN IF d = 0 THEN x ELSE Rat(x[1] \div d, x[2] \div d)
RatAdd(x, y) == Norm(Rat(x[1] * y[2] + y[1] * x[2], x[2] * y[2]))

Min(a, b) == IF a < b THEN a ELSE b
Max(a, b) == IF a > b THEN a ELSE b

\* the sum of f over a set S of integers within lo .. hi (by halves)
RECURSIVE SumIn(_, _, _, _)
SumIn(f, S, lo, hi) ==
    IF lo > hi THEN 0
    ELSE IF lo = hi THEN (IF lo \in S THEN f[lo] ELSE 0)
    ELSE LET mid == (lo + hi) \div 2
         IN SumIn(f, S, lo, mid) + SumIn(f, S, mid + 1, hi)

RECURSIVE RatSumIn(_, _, _, _)
RatSumIn(f, S, lo, hi) ==
    IF lo > hi THEN Zero
    ELSE IF lo = hi THEN (IF lo \in S THEN f[lo] ELSE Zero)
    ELSE LET mid == (lo + hi) \div 2
         IN RatAdd(RatSumIn(f, S, lo, mid), RatSumIn(f, S, mid + 1, hi))

SetMin(S) == CHOOSE x \in S : \A y \in S : x <= y
SetMax(S) == CHOOSE x \in S : \A y \in S : y <= x
SumOver(f, S) == IF S = {} THEN 0 ELSE SumIn(f, S, SetMin(S), SetMax(S))
RatSumOver(f, S) == IF S = {} THEN Zero ELSE RatSumIn(f, S, SetMin(S), SetMax(S))

\* ---- the graph (networkx DiGraph as the analyses use it) ----
Nodes(g) == 1 .. g.n
number_of_nodes(g) == g.n
number_of_edges(g) == Cardinality(g.edges)
successors(g, v) == {e[2] : e \in {d \in g.edges : d[1] = v}}
predecessors(g, v) == {e[1] : e \in {d \in g.edges : d[2] = v}}
in_degree(g, v) == Cardinality(predecessors(g, v))
out_degree(g, v) == Cardinality(successors(g, v))
degree(g, v) == in_degree(g, v) + out_degree(g, v)

\* node attribute "name": nodes 2k-1 and 2k are two versions of package k
NodeName(v) == (v + 1) \div 2

Flip(E) == {<<e[2], e[1]>> : e \in E}

\* a reverse() that flips the edges of the graph it is called on
reverse_in_place(g) ==
    [self |-> [n |-> g.n, edges |-> Flip(g.edges)], ret |-> [n |-> g.n, edges |-> Flip(g.edges)]]

\* graph.reverse(): a new graph with every edge flipped; self is left as it is
reverse(g) == [self |-> g, ret |-> [n |-> g.n, edges |-> Flip(g.edges)]]

\* graph.to_undirected(): a new graph, every edge in both directions
to_undirected(g) == [self |-> g, ret |-> [n |-> g.n, edges |-> g.edges \cup Flip(g.edges)]]

\* breadth-first shortest path lengths from s along E: a function on the reached nodes
RECURSIVE bfs(_, _, _, _, _)
bfs(E, frontier, seen, d, acc) ==
    IF frontier = {} THEN acc
    ELSE LET nxt == {e[2] : e \in {x \in E : x[1] \in frontier}} \ seen
         IN bfs(E, nxt, seen \cup nxt, d + 1, acc @@ [w \in nxt |-> d + 1])

shortest_path_length(E, s) == bfs(E, {s}, {s}, 0, [x \in {s} |-> 0])

\* a closeness that measures the distances out of a node instead of into it
closeness_centrality_outward(g) ==
    [u \in Nodes(g) |->
        LET sp == shortest_path_length(g.edges, u)
            totsp == SumOver(sp, DOMAIN sp)
            r == Cardinality(DOMAIN sp)
        IN IF totsp > 0 /\ g.n > 1
           THEN Rat((r - 1) * (r - 1), totsp * (g.n - 1))
           ELSE Zero] @@ <<>>

\* nx.closeness_centrality(G): inward distances, Wasserman-Faust scaling
closeness_centrality(g) ==
    [u \in Nodes(g) |->
        LET sp == shortest_path_length(Flip(g.edges), u)
            totsp == SumOver(sp, DOMAIN sp)
            r == Cardinality(DOMAIN sp)
        IN IF totsp > 0 /\ g.n > 1
           THEN Rat((r - 1) * (r - 1), totsp * (g.n - 1))
           ELSE Zero] @@ <<>>

\* find_cycle(G) finds a directed cycle or raises NetworkXNoCycle
HasCycle(g) ==
    \E v \in Nodes(g) : \E w \in successors(g, v) : v \in DOMAIN shortest_path_length(g.edges, w)

\* nx.connected_components(undirected), in order of discovery (node order)
Component(u, v) == DOMAIN shortest_path_length(u.edges, v)
connected_components(u) ==
    LET firsts == {v \in Nodes(u) : \A w \in Component(u, v) : v <= w}
        order[k \in 0 .. u.n] ==
            IF k = 0 THEN <<>>
            ELSE IF k \in firsts THEN Append(order[k - 1], Component(u, k))
            ELSE order[k - 1]
    IN order[u.n]

\* max(components, key=len): the first component of the largest size
RECURSIVE MaxByLen(_, _)
MaxByLen(cs, best) ==
    IF cs = <<>> THEN best
    ELSE MaxByLen(Tail(cs), IF Cardinality(Head(cs)) > Cardinality(best) THEN Head(cs) ELSE best)
largest_component(cs) == MaxByLen(Tail(cs), Head(cs))

\* undirected.subgraph(nodes): the induced subgraph (node set kept as a set)
SubEdges(E, S) == {e \in E : e[1] \in S /\ e[2] \in S}

\* nx.diameter / nx.average_shortest_path_length of a connected subgraph on S
diameter(E, S) ==
    SetMax({SetMax({shortest_path_length(E, s)[t] : t \in S}) : s \in S})
average_shortest_path_length(E, S) ==
    LET k == Cardinality(S)
        tot == SumOver([s \in S |-> SumOver(shortest_path_length(E, s), S)], S)
    IN IF k = 1 THEN Zero ELSE Rat(tot, k * (k - 1))

\* nx.average_clustering(undirected)
average_clustering(u) ==
    LET nb(v) == successors(u, v)
        tri(v) == Cardinality({p \in nb(v) \X nb(v) : p[1] < p[2] /\ p \in u.edges})
        c == [v \in Nodes(u) |->
                LET d == Cardinality(nb(v))
                IN IF d < 2 THEN Zero ELSE Rat(2 * tri(v), d * (d - 1))]
        s == RatSumOver(c, Nodes(u))
    IN Rat(s[1], s[2] * u.n)

\* nx.density(graph)
density(g) ==
    IF number_of_edges(g) = 0 \/ g.n <= 1 THEN Zero
    ELSE Rat(number_of_edges(g), g.n * (g.n - 1))

\* ---- outcomes of a call ----
Raise(e) == [kind |-> "raise", error |-> e]
Return(v) == [kind |-> "return", value |-> v]

\* ---- get_summary_statistics ----
more_than_one_version(g) ==
    {k \in {NodeName(v) : v \in Nodes(g)} :
        Cardinality({v \in Nodes(g) : NodeName(v) = k}) > 1}

root_nodes(g) == {v \in Nodes(g) : in_degree(g, v) = 0}

get_summary_statistics(g) ==
    IF ~HasCycle(g)
    THEN \* find_cycle raises NetworkXNoCycle when the graph has no cycle
         [self |-> g, out |-> Raise("NetworkXNoCycle"), printed |-> <<>>]
    ELSE IF Cardinality(root_nodes(g)) # 1
    THEN [self |-> g, out |-> Raise("AssertionError"), printed |-> <<"loops">>]
    ELSE LET root_node == CHOOSE v \in root_nodes(g) : TRUE
             und == to_undirected(g)
             undirected == und.ret
             largest_cc == largest_component(connected_components(undirected))
             largest_subgraph == SubEdges(undirected.edges, largest_cc)
         IN [self |-> und.self,
             printed |-> <<"loops">>,
             out |-> Return([
                 nodes |-> number_of_nodes(g),
                 edges |-> number_of_edges(g),
                 direct_dependencies |-> Some(Cardinality(successors(g, root_node))),
                 max_path_length |-> diameter(largest_subgraph, largest_cc),
                 avg_path_length |-> average_shortest_path_length(largest_subgraph, largest_cc),
                 clustering |-> average_clustering(undirected),
                 density |-> density(g),
                 packages_with_more_than_one_version |->
                     Cardinality(more_than_one_version(g))])]

\* the rows of the table format_summary_statistics writes
format_summary_statistics(stats) ==
    << <<"Number of packages (nodes)", stats.nodes>>,
       <<"Number of dependencies (edges)", stats.edges>>,
       <<"Number of direct dependencies of root",
         IF stats.direct_dependencies.kind # "None"
         THEN stats.direct_dependencies.value
         ELSE "Warning: No root node found">>,
       <<"Maximum path length", stats.max_path_length>>,
       <<"Packages with more than one version", stats.packages_with_more_than_one_version>> >>

\* ---- markdown.py ----
table_margin_marker(marker) == IF marker % 5 = 0 THEN <<"marginnote", marker>> ELSE <<>>

\* f"{score:.4f}": the number of ten-thousandths nearest to the score (ties to even)
Fmt4(x) ==
    LET y == Norm(x)
        q == (y[1] * 10000) \div y[2]
        r == (y[1] * 10000) % y[2]
    IN IF 2 * r > y[2] \/ (2 * r = y[2] /\ q % 2 = 1) THEN q + 1 ELSE q

generate_markdown_table(id, tdata, caption) ==
    [id |-> id, caption |-> caption,
     rows |-> [i \in 1 .. Len(tdata) |->
                 [margin |-> table_margin_marker(i), pkg |-> tdata[i][1],
                  score |-> Fmt4(tdata[i][2])]]]

\* ---- ranking: sorted(d.items(), key=lambda x: x[1], reverse=True) and the slices ----
items(d, n) == [i \in 1 .. n |-> <<i, d[i]>>] @@ <<>>

\* an ascending sort read backwards: items of one score come out in reverse order
sorted_then_reversed(its) ==
    LET n == Len(its)
        before(i) == {j \in 1 .. n : \/ RatLess(its[i][2], its[j][2])
                                     \/ j > i /\ RatEq(its[j][2], its[i][2])}
        place == [i \in 1 .. n |-> 1 + Cardinality(before(i))] @@ <<>>
    IN [p \in 1 .. n |-> its[CHOOSE i \in 1 .. n : place[i] = p]] @@ <<>>

\* Python's sort is stable, also with reverse=True: an item goes after every item of
\* a higher score and after the items of its own score that came before it
sorted_reverse(its) ==
    LET n == Len(its)
        before(i) == {j \in 1 .. n : \/ RatLess(its[i][2], its[j][2])
                                     \/ j < i /\ RatEq(its[j][2], its[i][2])}
        place == [i \in 1 .. n |-> 1 + Cardinality(before(i))] @@ <<>>
    IN [p \in 1 .. n |-> its[CHOOSE i \in 1 .. n : place[i] = p]] @@ <<>>

\* s[:k]
Top(s, k) == SubSeq(s, 1, Min(k, Len(s)))
\* s[-k:]
Bottom(s, k) == SubSeq(s, Max(1, Len(s) - k + 1), Len(s))
\* [(p, s) for p, s in xs if s > 0]
NonZero(s) == SelectSeq(s, LAMBDA x : RatLess(Zero, x[2]))

\* ---- the library's metrics ----
\* a library call can end in an exception instead of a result: the betweenness
\* computation (the one the error-handling design speaks of) and PageRank, which
\* raises PowerIterationFailedConvergence when the iteration does not converge
Faults == {"none", "betweenness_centrality", "pagerank"}

\* Brandes' algorithm, as nx.betweenness_centrality runs it from one source s:
\* sigma counts the shortest paths level by level, delta accumulates the dependencies
\* from the farthest level back to the source.
RECURSIVE path_counts(_, _, _, _)
path_counts(E, frontier, seen, sigma) ==
    IF frontier = {} THEN sigma
    ELSE LET nxt == {e[2] : e \in {x \in E : x[1] \in frontier}} \ seen
             preds(w) == {p \in frontier : <<p, w>> \in E}
         IN path_counts(E, nxt, seen \cup nxt,
                        sigma @@ [w \in nxt |-> SumOver(sigma, preds(w))])

RatMul(x, y) == Norm(Rat(x[1] * y[1], x[2] * y[2]))

RECURSIVE accumulate(_, _, _, _, _)
accumulate(E, dist, sigma, level, delta) ==
    IF level < 0 THEN delta
    ELSE LET here == {v \in DOMAIN dist : dist[v] = level}
             below(v) == {w \in DOMAIN dist : <<v, w>> \in E /\ dist[w] = level + 1}
             coeff(v) == [w \in below(v) |->
                             RatMul(Rat(sigma[v], sigma[w]), RatAdd(Rat(1, 1), delta[w]))]
         IN accumulate(E, dist, sigma, level - 1,
                       delta @@ [v \in here |-> RatSumOver(coeff(v), below(v))])

\* the dependency of source s on every node reached from s
dependencies(E, s) ==
    LET dist == shortest_path_length(E, s)
        sigma == path_counts(E, {s}, {s}, [x \in {s} |-> 1])
        far == SetMax({dist[v] : v \in DOMAIN dist})
    IN accumulate(E, dist, sigma, far, <<>>)

\* nx.betweenness_centrality(G), normalized: the dependencies of all sources on v,
\* scaled by 1/((n-1)(n-2)) when n > 2
betweenness_centrality(g) ==
    LET delta == [s \in Nodes(g) |-> dependencies(g.edges, s)] @@ <<>>
        from(v) == {s \in Nodes(g) : s # v /\ v \in DOMAIN delta[s]}
        raw(v) == RatSumOver([s \in from(v) |-> delta[s][v]], from(v))
    IN [v \in Nodes(g) |->
           IF g.n > 2
           THEN LET b == raw(v) IN Norm(Rat(b[1], b[2] * (g.n - 1) * (g.n - 2)))
           ELSE raw(v)] @@ <<>>

\* nx.pagerank(graph): positive scores that sum to 1, from a numeric iteration that
\* can also end in PowerIterationFailedConvergence.  The scores are the library's;
\* the model lets them be uniform or weighted by in-degree.
pagerank_results(g) ==
    {[v \in Nodes(g) |-> Rat(1, g.n)],
     [v \in Nodes(g) |-> Norm(Rat(1 + in_degree(g, v), g.n + number_of_edges(g)))]}

\* ---- calculate_gini_coefficients ----
Num(r) == <<"num", r>>
NaN == <<"nan">>
Inf == <<"inf">>

RatAbsDiff(x, y) ==
    LET d == x[1] * y[2] - y[1] * x[2]
    IN Norm(Rat(IF d < 0 THEN 0 - d ELSE d, x[2] * y[2]))

\* diffsum / (len(x) ** 2 * np.mean(x)) in numpy's floating point: 0/0 is nan, x/0 is inf
np_divide(a, b) ==
    IF b[1] = 0 THEN (IF a[1] = 0 THEN NaN ELSE Inf)
    ELSE Num(Norm(Rat(a[1] * b[2], a[2] * b[1])))

calculate_gini_coefficients(d) ==
    LET n == Len(d)
        \* np.sum(np.abs(xi - x[i:])) for xi = x[i]
        row(i) == RatSumOver([j \in (i + 1) .. n |-> RatAbsDiff(d[i], d[j])], (i + 1) .. n)
        diffsum == RatSumOver([i \in 1 .. (n - 1) |-> row(i)], 1 .. (n - 1))
        total == RatSumOver([i \in 1 .. n |-> d[i]], 1 .. n)
        mean == Norm(Rat(total[1], total[2] * n))
    IN IF n <= 1 THEN Num(Zero)
       ELSE np_divide(diffsum, Norm(Rat(n * n * mean[1], mean[2])))

\* f"{score:.4f}" of a float: nan prints as "nan", inf as "inf"
Fmt4F(x) == IF x[1] = "num" THEN <<"num", Fmt4(x[2])>> ELSE x

\* ---- the analyses: [self |-> the graph after the call, out |-> what the call ends in,
\*      handed |-> the lists handed to the renderer, ran |-> the metrics computed] ----
Failed(g, e, ran) == [self |-> g, out |-> Raise(e), handed |-> <<>>, ran |-> ran]

analyse_connectivity(g) ==
    LET degrees == [v \in Nodes(g) |-> Rat(degree(g, v), 1)]
        sorted_degrees == sorted_reverse(items(degrees, g.n))
        shown == Top(sorted_degrees, TOP_X_TO_SHOW)
    IN [self |-> g,
        out |-> Return(<<[id |-> "degree_of_connectivity",
                          rows |-> [i \in 1 .. Len(shown) |->
                              [margin |-> table_margin_marker(i), pkg |-> shown[i][1],
                               in |-> in_degree(g, shown[i][1]),
                               out |-> out_degree(g, shown[i][1]),
                               tot |-> shown[i][2][1]]]]>>),
        handed |-> <<shown>>,
        ran |-> <<"degree">>]

analyse_closeness(g) ==
    LET closeness_in == closeness_centrality(g)
        rev == reverse(g)
        closeness_out == closeness_centrality(rev.ret)
        sorted_closeness_in == sorted_reverse(items(closeness_in, g.n))
        sorted_closeness_out == sorted_reverse(items(closeness_out, g.n))
        handed == << Top(sorted_closeness_in, TOP_X_TO_SHOW),
                     Bottom(sorted_closeness_in, BOTTOM_X_TO_SHOW),
                     Top(sorted_closeness_out, TOP_X_TO_SHOW),
                     Bottom(NonZero(sorted_closeness_out), BOTTOM_X_TO_SHOW) >>
    IN [self |-> rev.self,
        out |-> Return(<<
            generate_markdown_table("closeness_centrality_in", handed[1],
                                    "Closeness centrality -- dependents, highest"),
            generate_markdown_table("closeness_centrality_in_lowest", handed[2],
                                    "Closeness centrality -- dependents, lowest"),
            generate_markdown_table("closeness_centrality_out", handed[3],
                                    "Closeness centrality -- dependencies, highest"),
            generate_markdown_table("closeness_centrality_out_lowest", handed[4],
                                    "Closeness centrality -- dependencies, lowest non-zero")>>),
        handed |-> handed,
        ran |-> <<"closeness">>]

analyse_betweenness(g, fault) ==
    IF fault = "betweenness_centrality" THEN Failed(g, "Exception", <<>>)
    ELSE
    LET betweenness_directed == betweenness_centrality(g)
        und == to_undirected(g)
        betweenness_undirected == betweenness_centrality(und.ret)
        handed == << Top(sorted_reverse(items(betweenness_directed, g.n)), TOP_X_TO_SHOW),
                     Top(sorted_reverse(items(betweenness_undirected, g.n)), TOP_X_TO_SHOW) >>
    IN [self |-> und.self,
        out |-> Return(<<
            generate_markdown_table("betweenness_centrality_directed", handed[1],
                                    "Betweenness centrality -- directed"),
            generate_markdown_table("betweenness_centrality_undirected", handed[2],
                                    "Betweenness centrality -- undirected")>>),
        handed |-> handed,
        ran |-> <<"betweenness">>]

analyse_pagerank(g, fault, pr) ==
    IF fault = "pagerank" THEN Failed(g, "PowerIterationFailedConvergence", <<>>)
    ELSE
    LET handed == << Top(sorted_reverse(items(pr, g.n)), TOP_X_TO_SHOW) >>
    IN [self |-> g,
        out |-> Return(<<generate_markdown_table("pagerank_centrality", handed[1],
                             "Prestige centrality (PageRank algorithm)")>>),
        handed |-> handed,
        ran |-> <<"pagerank">>]

format_gini(g, fault, pr) ==
    LET rev == reverse(g)
        closeness_out == closeness_centrality(rev.ret)
        gini_closeness_out == calculate_gini_coefficients([v \in Nodes(g) |-> closeness_out[v]])
        gini_out_degree ==
            calculate_gini_coefficients([v \in Nodes(g) |-> Rat(out_degree(g, v), 1)])
        gini_pagerank == calculate_gini_coefficients([v \in Nodes(g) |-> pr[v]])
        gdata == << <<"Closeness (dependencies)", gini_closeness_out>>,
                    <<"Degree of connectivity (dependencies)", gini_out_degree>>,
                    <<"Prestige (PageRank)", gini_pagerank>> >>
    IN IF fault = "pagerank"
       THEN Failed(rev.self, "PowerIterationFailedConvergence", <<"closeness", "degree">>)
       ELSE [self |-> rev.self,
             out |-> Return(<<[id |-> "gini_coefficients",
                               rows |-> [i \in 1 .. 3 |->
                                   [pkg |-> gdata[i][1], score |-> Fmt4F(gdata[i][2])]]]>>),
             handed |-> <<gdata>>,
             ran |-> <<"closeness", "degree", "pagerank">>]

\* ---- the state machine: a caller makes one call at a time on the graph it holds ----
\* the i-th of the n * (n - 1) pairs of distinct nodes
PairAt(n, i) ==
    LET u == ((i - 1) \div (n - 1)) + 1
        r == ((i - 1) % (n - 1)) + 1
    IN <<u, IF r < u THEN r ELSE r + 1>>

\* the graph on n nodes whose edges are the pairs numbered in X
GraphOf(n, X) == [n |-> n, edges |-> {PairAt(n, i) : i \in X}]

\* graph is any graph without self-loops on at most maxn nodes and maxe edges
AnyGraph(maxn, maxe) ==
    \E n \in 0 .. maxn : \E X \in SUBSET (1 .. n * (n - 1)) :
        /\ Cardinality(X) <= maxe
        /\ graph = GraphOf(n, X)

Outcome(r) == [out |-> r.out, handed |-> r.handed, ran |-> r.ran]

Init ==
    /\ AnyGraph(MaxNodes, MaxEdges)
    /\ call = "none"
    /\ result = None
    /\ data = <<>>

Call_analyse_connectivity ==
    /\ call = "none"
    /\ LET r == analyse_connectivity(graph)
       IN /\ graph' = r.self
          /\ result' = Outcome(r)
    /\ call' = "analyse_connectivity"
    /\ UNCHANGED data

Call_analyse_closeness ==
    /\ call = "none"
    /\ LET r == analyse_closeness(graph)
       IN /\ graph' = r.self
          /\ result' = Outcome(r)
    /\ call' = "analyse_closeness"
    /\ UNCHANGED data

Call_analyse_betweenness ==
    /\ call = "none"
    /\ \E fault \in {"none", "betweenness_centrality"} :
          LET r == analyse_betweenness(graph, fault)
          IN /\ graph' = r.self
             /\ result' = Outcome(r)
    /\ call' = "analyse_betweenness"
    /\ UNCHANGED data

Call_analyse_pagerank ==
    /\ call = "none"
    /\ \E fault \in {"none", "pagerank"}, pr \in pagerank_results(graph) :
          LET r == analyse_pagerank(graph, fault, pr)
          IN /\ graph' = r.self
             /\ result' = Outcome(r)
    /\ call' = "analyse_pagerank"
    /\ UNCHANGED data

\* analyse_centrality runs the three analyses one after the other and joins their
\* outputs; an exception of one of them ends the call there.  call is
\* "analyse_centrality_135" (_136) while the call stands before line 135 (136).
Join(r) ==
    IF r.out.kind = "raise"
    THEN [out |-> r.out, handed |-> <<>>, ran |-> result.ran]
    ELSE [out |-> Return(result.out.value \o r.out.value),
          handed |-> result.handed \o r.handed,
          ran |-> result.ran \o r.ran]

Call_analyse_centrality ==
    /\ call = "none"
    /\ LET r == analyse_closeness(graph)
       IN /\ graph' = r.self
          /\ result' = Outcome(r)
    /\ call' = "analyse_centrality_135"
    /\ UNCHANGED data

analyse_centrality_135 ==
    /\ call = "analyse_centrality_135"
    /\ \E fault \in {"none", "betweenness_centrality"} :
          LET r == analyse_betweenness(graph, fault)
          IN /\ graph' = r.self
             /\ result' = Join(r)
             /\ call' = IF r.out.kind = "raise" THEN "analyse_centrality"
                        ELSE "analyse_centrality_136"
    /\ UNCHANGED data

analyse_centrality_136 ==
    /\ call = "analyse_centrality_136"
    /\ \E fault \in {"none", "pagerank"}, pr \in pagerank_results(graph) :
          LET r == analyse_pagerank(graph, fault, pr)
          IN /\ graph' = r.self
             /\ result' = Join(r)
    /\ call' = "analyse_centrality"
    /\ UNCHANGED data

Call_get_summary_statistics ==
    /\ call = "none"
    /\ LET r == get_summary_statistics(graph)
       IN /\ graph' = r.self
          /\ result' = [out |-> r.out, printed |-> r.printed]
    /\ call' = "get_summary_statistics"
    /\ UNCHANGED data

\* the caller formats the record get_summary_statistics returned
Call_format_summary_statistics ==
    /\ call = "get_summary_statistics"
    /\ result.out.kind = "return"
    /\ result' = [out |-> Return(format_summary_statistics(result.out.value))]
    /\ call' = "format_summary_statistics"
    /\ UNCHANGED <<graph, data>>

Call_format_gini ==
    /\ call = "none"
    /\ \E fault \in {"none", "pagerank"}, pr \in pagerank_results(graph) :
          LET r == format_gini(graph, fault, pr)
          IN /\ graph' = r.self
             /\ result' = Outcome(r)
    /\ call' = "format_gini"
    /\ UNCHANGED data

\* the call is over; the caller can make the next one
ReturnToCaller ==
    /\ call \notin {"none", "analyse_centrality_135", "analyse_centrality_136"}
    /\ call' = "none"
    /\ result' = None
    /\ UNCHANGED <<graph, data>>

Next ==
    \/ Call_analyse_connectivity
    \/ Call_analyse_closeness
    \/ Call_analyse_betweenness
    \/ Call_analyse_pagerank
    \/ Call_analyse_centrality
    \/ analyse_centrality_135
    \/ analyse_centrality_136
    \/ Call_get_summary_statistics
    \/ Call_format_summary_statistics
    \/ Call_format_gini
    \/ ReturnToCaller

Spec == Init /\ [][Next]_vars

\* ---- get_summary_statistics on its own, on graphs with up to MaxNodes edges ----
InitStats ==
    /\ AnyGraph(MaxNodes, MaxNodes)
    /\ call = "none"
    /\ result = None
    /\ data = <<>>

NextStats ==
    \/ Call_get_summary_statistics
    \/ Call_format_summary_statistics
    \/ ReturnToCaller

SpecStats == InitStats /\ [][NextStats]_vars

\* ---- calculate_gini_coefficients on its own, on every short sequence of scores ----
RECURSIVE Seqs(_, _)
Seqs(S, k) ==
    IF k = 0 THEN {<<>>}
    ELSE LET T == Seqs(S, k - 1) IN T \cup {Append(t, x) : t \in T, x \in S}

InitGini ==
    /\ graph = [n |-> 0, edges |-> {}]
    /\ call = "none"
    /\ result = None
    /\ data \in Seqs(0 .. MaxScore, MaxLen)

Call_calculate_gini_coefficients ==
    /\ call = "none"
    /\ result' = [out |-> Return(calculate_gini_coefficients(
                                     [i \in 1 .. Len(data) |-> Rat(data[i], 1)]))]
    /\ call' = "calculate_gini_coefficients"
    /\ UNCHANGED <<graph, data>>

NextGini ==
    \/ Call_calculate_gini_coefficients
    \/ ReturnToCaller

SpecGini == InitGini /\ [][NextGini]_vars

\* ---- the ranking analyses on graphs too long for one table ----
\* a dependency tree on len nodes where every package has up to k dependencies, as it
\* is, with a dependency between siblings, or with a dependency back to a grandparent
Parent(i, k) == ((i - 2) \div k) + 1
Tree(len, k) == {<<Parent(i, k), i>> : i \in 2 .. len}
Shapes == {"tree", "shared", "cycle"}
RankGraph(len, k, shape) ==
    [n |-> len,
     edges |->
        Tree(len, k) \cup
        (CASE shape = "tree" -> {}
           [] shape = "shared" -> {<<i - 1, i>> : i \in {j \in 3 .. len : j % 2 = 1}}
           [] shape = "cycle" -> {<<i, Parent(Parent(i, k), k)>> : i \in {j \in 4 .. len : j = len}})]

InitRank ==
    /\ \E len \in 0 .. MaxItems, k \in 1 .. MaxBranch, shape \in Shapes :
          graph = RankGraph(len, k, shape)
    /\ call = "none"
    /\ result = None
    /\ data = <<>>

NextRank ==
    \/ Call_analyse_connectivity
    \/ Call_analyse_closeness
    \/ Call_analyse_betweenness
    \/ Call_analyse_pagerank
    \/ ReturnToCaller

SpecRank == InitRank /\ [][NextRank]_vars

\* ======================= the claims =======================
Range(q) == {q[i] : i \in 1 .. Len(q)}
Returned == result.out.kind = "return"
Stats == result.out.value

\* C1: get_summary_statistics on a graph with no or with several in-degree-0 nodes
\* does not abort: it returns a record whose direct_dependencies is None and whose
\* node and edge counts are computed.
C1_NoSingleRootDegrades ==
    (call = "get_summary_statistics" /\ Cardinality(root_nodes(graph)) # 1)
        => /\ Returned
           /\ Stats.direct_dependencies = None
           /\ Stats.nodes = number_of_nodes(graph)
           /\ Stats.edges = number_of_edges(graph)

\* C2: on a non-empty graph with exactly one in-degree-0 node get_summary_statistics
\* returns a record, with a cycle in the graph (then reported) and without one.
C2_CycleDetectionNeverFails ==
    (call = "get_summary_statistics" /\ graph.n > 0 /\ Cardinality(root_nodes(graph)) = 1)
        => /\ Returned
           /\ HasCycle(graph) => result.printed = <<"loops">>

\* C7: on a graph with exactly one in-degree-0 node R, get_summary_statistics returns
\* direct_dependencies = out-degree of R, nodes and edges = the graph's counts.
C7_DirectDependencies ==
    (call = "get_summary_statistics" /\ Cardinality(root_nodes(graph)) = 1)
        => /\ Returned
           /\ Stats.direct_dependencies =
                  Some(out_degree(graph, CHOOSE v \in root_nodes(graph) : TRUE))
           /\ Stats.nodes = number_of_nodes(graph)
           /\ Stats.edges = number_of_edges(graph)

\* the components of the undirected projection, and the graph of one component alone
Components(g) == {Component(to_undirected(g).ret, v) : v \in Nodes(g)}
Alone(g, L) ==
    LET pos(v) == Cardinality({w \in L : w <= v})
    IN [n |-> Cardinality(L),
        edges |-> {<<pos(e[1]), pos(e[2])>> : e \in SubEdges(g.edges, L)}]
StrictlyLargest(g, L) ==
    /\ L \in Components(g)
    /\ Cardinality(Components(g)) > 1
    /\ \A K \in Components(g) \ {L} : Cardinality(K) < Cardinality(L)

\* C9: when the undirected projection has several components, max_path_length and
\* avg_path_length are those of the largest component alone, and the smaller
\* components never make the call fail: if the call returns on the largest component
\* alone, it returns on the whole graph, with the same two values.
C9_LargestComponentOnly ==
    call = "get_summary_statistics" =>
        \A L \in Components(graph) :
            StrictlyLargest(graph, L) =>
                LET alone == get_summary_statistics(Alone(graph, L)).out
                IN alone.kind = "return" =>
                    /\ Returned
                    /\ Stats.max_path_length = alone.value.max_path_length
                    /\ RatEq(Stats.avg_path_length, alone.value.avg_path_length)

AllZero(d) == \A i \in 1 .. Len(d) : d[i] = 0
AllEqual(d) == \A i, j \in 1 .. Len(d) : d[i] = d[j]

\* C3: calculate_gini_coefficients on more than one score, all 0 (mean zero), ends
\* in an explicit error; it returns no NaN and no infinite value.
C3_ZeroMeanIsAnError ==
    (call = "calculate_gini_coefficients" /\ Len(data) > 1 /\ AllZero(data))
        => result.out.kind = "raise"

\* C4: for every sequence of non-negative scores the Gini coefficient lies in [0, 1),
\* and it is exactly 0 for sequences of length 0 or 1 and when all values are equal.
C4_GiniRange ==
    call = "calculate_gini_coefficients" =>
        /\ Returned
        /\ Stats[1] = "num"
        /\ ~RatLess(Stats[2], Zero)
        /\ RatLess(Stats[2], Rat(1, 1))
        /\ (Len(data) <= 1 \/ AllEqual(data)) => RatEq(Stats[2], Zero)

RankingCalls ==
    {"analyse_connectivity", "analyse_closeness", "analyse_betweenness", "analyse_pagerank"}

\* the list is ordered by score descending, equal scores in node order
Ranked(l) ==
    \A i, j \in 1 .. Len(l) :
        i < j => /\ ~RatLess(l[i][2], l[j][2])
                 /\ RatEq(l[i][2], l[j][2]) => l[i][1] < l[j][1]

\* C5: every ranked list an analysis hands to the renderer (the top-20 and bottom-10
\* slices too) is ordered by score descending, and nodes of equal score keep the
\* graph's node order.
C5_RankedLists ==
    (call \in RankingCalls /\ Returned)
        => \A k \in 1 .. Len(result.handed) : Ranked(result.handed[k])

\* a graph longer than a table, cut to the top 20 and the bottom 10, with a tie
C5_Witness ==
    /\ call = "analyse_closeness"
    /\ graph.n > TOP_X_TO_SHOW
    /\ Len(result.handed[1]) = TOP_X_TO_SHOW
    /\ Len(result.handed[2]) = BOTTOM_X_TO_SHOW
    /\ \E i, j \in 1 .. TOP_X_TO_SHOW :
          i < j /\ RatEq(result.handed[1][i][2], result.handed[1][j][2])

\* the star with center c: an edge from c to every other node, and no other edge
Star(g, c) == g.n >= 2 /\ c \in Nodes(g) /\ g.edges = {<<c, v>> : v \in Nodes(g) \ {c}}
ScoreOf(l, v) == l[CHOOSE i \in 1 .. Len(l) : l[i][1] = v][2]
closeness_in_of(v) == ScoreOf(result.handed[1], v)
closeness_out_of(v) == ScoreOf(result.handed[3], v)

\* C6 as stated: in a star (edges center -> leaf) every leaf has closeness-out 0 and
\* the center's closeness-in is strictly greater than every leaf's.
C6_CenterFavoured ==
    call = "analyse_closeness" =>
        \A c \in Nodes(graph) : Star(graph, c) =>
            \A v \in Nodes(graph) \ {c} :
                /\ RatEq(closeness_out_of(v), Zero)
                /\ RatLess(closeness_in_of(v), closeness_in_of(c))

\* C6 as amended: in a star (edges center -> leaf) every leaf has closeness-out 0 and
\* the center's closeness-in is strictly less than every leaf's.
C6_LeavesFavoured ==
    call = "analyse_closeness" =>
        \A c \in Nodes(graph) : Star(graph, c) =>
            \A v \in Nodes(graph) \ {c} :
                /\ RatEq(closeness_out_of(v), Zero)
                /\ RatLess(closeness_in_of(c), closeness_in_of(v))

\* analyse_closeness has returned on a star with three leaves
C6_Witness ==
    /\ call = "analyse_closeness"
    /\ graph.n = 4
    /\ \E c \in Nodes(graph) : Star(graph, c)

\* C8: when the betweenness computation of analyse_centrality fails, PageRank is
\* still computed and returned, and the closeness result is not lost.
C8_MetricsFailIndependently ==
    (call = "analyse_centrality" /\ "betweenness" \notin Range(result.ran))
        => /\ "pagerank" \in Range(result.ran)
           /\ Returned
           /\ {t.id : t \in Range(Stats)} =
                  {"closeness_centrality_in", "closeness_centrality_in_lowest",
                   "closeness_centrality_out", "closeness_centrality_out_lowest",
                   "pagerank_centrality"}

\* C10: no call changes the graph it is given, whether it returns or raises.
C10_GraphNotMutated == [][graph' = graph]_vars

\* a call on a graph with edges has ended in an error
C10_Witness ==
    /\ call \in {"get_summary_statistics", "format_gini", "analyse_centrality"}
    /\ result.out.kind = "raise"
    /\ graph.edges # {}
====
